---- MODULE Spec2Model ----
(***************************************************************************)
(* A model of src/code/ppo.py: the PPO agent (class PPO), its action       *)
(* selection (take_action), its update (train) and its advantage           *)
(* estimator (compute_advantage).                                          *)
(*                                                                         *)
(* Arrays and tensors are functions on 0..n-1, as the code indexes them.   *)
(* Floating-point numbers are modelled as exact rationals <<num, den>>     *)
(* with den > 0, in lowest terms.  The networks of utils (PolicyNet,       *)
(* ValueNet) and the Adam optimizers are collaborators whose code is not   *)
(* in src/: a parameter set is modelled by the number of optimizer steps   *)
(* applied to it, and a network output as a fixed function of that number  *)
(* and of the observation.                                                 *)
(***************************************************************************)
EXTENDS Integers, Sequences, FiniteSets, TLC

\* ------------------------------------------------------------------ bounds
MaxLen == 3      \* longest buffer array handed to train
MaxAdvLen == 4   \* longest buffer handed to compute_advantage on its own
MaxBatch == 2    \* largest batch_size
MaxEpoch == 2    \* largest n_epoch
MaxCalls == 2    \* train calls per agent

NumActions == 2  \* CartPole-v0's discrete action set

\* --------------------------------------------------------------- rationals
Abs(n) == IF n < 0 THEN -n ELSE n

RECURSIVE GCD(_, _)
GCD(a, b) == IF b = 0 THEN a ELSE GCD(b, a % b)

Norm(n, d) ==
    LET g == GCD(Abs(n), d)
    IN  <<(Abs(n) \div g) * (IF n < 0 THEN -1 ELSE 1), d \div g>>

RInt(n) == <<n, 1>>
Zero == RInt(0)
One == RInt(1)
RAdd(x, y) == Norm(x[1] * y[2] + y[1] * x[2], x[2] * y[2])
RSub(x, y) == Norm(x[1] * y[2] - y[1] * x[2], x[2] * y[2])
RMul(x, y) == Norm(x[1] * y[1], x[2] * y[2])
RDiv(x, y) == Norm(x[1] * y[2] * (IF y[1] < 0 THEN -1 ELSE 1), x[2] * Abs(y[1]))
RLess(x, y) == x[1] * y[2] < y[1] * x[2]
RMin(x, y) == IF RLess(y, x) THEN y ELSE x
RMax(x, y) == IF RLess(x, y) THEN y ELSE x

\* ------------------------------------------------------------------ arrays
Size(a) == Cardinality(DOMAIN a)
Arr(n, F(_)) == [i \in 0..(n - 1) |-> F(i)]
Empty == [i \in {} |-> Zero]

RECURSIVE SumTo(_, _)
SumTo(a, n) == IF n = 0 THEN Zero ELSE RAdd(SumTo(a, n - 1), a[n - 1])
Mean(a) == RDiv(SumTo(a, Size(a)), RInt(Size(a)))

\* torch's broadcast of two (n, 1) tensors: the common length, or -1 (RuntimeError).
BcShape(m, n) ==
    IF m < 0 \/ n < 0 THEN -1
    ELSE IF m = n THEN m
    ELSE IF m = 1 THEN n
    ELSE IF n = 1 THEN m
    ELSE -1

\* Element i of an operand of a broadcast operation.
At(t, i) == IF Size(t) = 1 THEN t[0] ELSE t[i]

\* tensor[idx_arr]: every index must be inside the tensor (IndexError otherwise).
CanIndex(t, idx) == \A k \in DOMAIN idx : idx[k] < Size(t)
Index(t, idx) == [k \in DOMAIN idx |-> t[idx[k]]]

\* ------------------------------------------------ collaborators (utils, torch)
\* PolicyNet: a probability vector over the actions, one per observation.
PolicyNet(theta, o) ==
    LET p0 == Norm(1 + ((theta + o) % 3), 4)
    IN  [a \in 0..(NumActions - 1) |-> IF a = 0 THEN p0 ELSE RSub(One, p0)]

\* ValueNet: one scalar per observation.
ValueNet(w, o) == RInt((w + o) % 3)

\* th.log of a probability, kept as a term; th.exp of a difference of two logs.
Log(p) == [log |-> p]
ExpDiff(lp, olp) == RDiv(lp.log, olp.log)

Clamp(x, lo, hi) == RMin(RMax(x, lo), hi)

\* ----------------------------------------------------------- configuration
BatchSizes == (-1)..MaxBatch          \* __init__ takes any int
Epochs == 0..MaxEpoch
Gammas == {<<1, 2>>}
Lamdas == {<<1, 2>>, <<1, 1>>}
Epsilon == <<1, 5>>                   \* epsilon, default 0.2

\* ------------------------------------------------------------------- state
VARIABLES
    pc,               \* where the agent is: "new", "idle", a place in train, ...
    raised,           \* the exception that ended the current call, or "none"
    batch_size, n_epoch, gamma, lamda,       \* self.* set by __init__
    policy_params, value_params,             \* the two networks' parameters
    buffer_dict,      \* the dict handed to train / compute_advantage
    old_log_prob, advantage_tensor,          \* locals of train
    epoch,            \* iterations of "for _ in range(self.n_epoch)" begun
    idx_arr, sgd_idx, sgd_idx_arr, sgd_old_log_prob,
    policy_loss, value_loss,
    taken,            \* take_action's arguments and return value
    calls,            \* train calls begun
    start_policy, start_value,   \* the parameters when the current call began
    epoch_batches     \* the sgd_idx_arr of the current epoch, in order

vars == <<pc, raised, batch_size, n_epoch, gamma, lamda, policy_params,
          value_params, buffer_dict, old_log_prob, advantage_tensor, epoch,
          idx_arr, sgd_idx, sgd_idx_arr, sgd_old_log_prob, policy_loss,
          value_loss, taken, calls, start_policy, start_value, epoch_batches>>

config == <<batch_size, n_epoch, gamma, lamda>>
params == <<policy_params, value_params>>
loop_locals == <<epoch, idx_arr, sgd_idx, sgd_idx_arr, sgd_old_log_prob,
                 policy_loss, value_loss, epoch_batches>>
call_start == <<calls, start_policy, start_value>>

NoLoss == [item |-> Zero, graph |-> 0]
NoTaken == [called |-> FALSE]
NoBuffer == [dones |-> Empty]

\* A float returned by .item(): a number, or nan.
Item(n) == [nan |-> FALSE, item |-> n]
NaN == [nan |-> TRUE, item |-> 0]

\* ------------------------------------------------------ compute_advantage
\* The accumulator carried across the episode boundary.
ResetAtDoneNever(done, advantage) == advantage

\* Lines 114-115: the accumulator restarts at an episode's last transition.
ResetAtDone(done, advantage) == IF done THEN Zero ELSE advantage

\* Line 116.
Accumulate(advantage, g, l, delta) == RAdd(advantage, RMul(RMul(g, l), delta))

\* Lines 113-117: the loop from tau_idx down to 0.  done_arr[tau_idx] raises
\* IndexError when done_arr is shorter than td_delta_arr.
RECURSIVE AdvLoop(_, _, _, _, _, _, _)
AdvLoop(done_arr, td_delta_arr, advantages, advantage, tau_idx, g, l) ==
    IF tau_idx < 0 THEN [advantages |-> advantages, raised |-> "none"]
    ELSE IF tau_idx >= Size(done_arr)
    THEN [advantages |-> advantages, raised |-> "IndexError"]
    ELSE LET a == Accumulate(ResetAtDone(done_arr[tau_idx], advantage), g, l,
                             td_delta_arr[tau_idx])
         IN  AdvLoop(done_arr, td_delta_arr,
                     [advantages EXCEPT ![tau_idx] = a], a, tau_idx - 1, g, l)

\* compute_advantage(buffer_dict): the dict it leaves, and what it raised.
compute_advantage(buf, g, l) ==
    LET done_arr == buf["dones"]
        td_delta_arr == buf["td_delta"]
        zeros == [i \in DOMAIN td_delta_arr |-> Zero]
        r == AdvLoop(done_arr, td_delta_arr, zeros, Zero,
                     Size(td_delta_arr) - 1, g, l)
    IN  [buffer_dict |-> ("advantages" :> r.advantages) @@ buf,
         raised |-> r.raised]

\* ------------------------------------------------------------ take_action
\* Categorical(probs).mean: torch defines it as nan for every probs.
CategoricalMean(probs) == NaN

\* Categorical(probs).sample(): an action of positive probability.
CategoricalSupport(probs) == {a \in DOMAIN probs : RLess(Zero, probs[a])}

Observations == 0..MaxLen

take_action ==
    /\ pc = "idle"
    /\ \E observation \in Observations, deterministic \in BOOLEAN :
          LET probs == PolicyNet(policy_params, observation)
          IN  \E sample \in CategoricalSupport(probs) :
                 taken' = [called |-> TRUE,
                           observation |-> observation,
                           deterministic |-> deterministic,
                           probs |-> probs,
                           action |-> IF deterministic
                                      THEN CategoricalMean(probs)
                                      ELSE Item(sample)]
    /\ pc' = "acted"
    /\ UNCHANGED <<raised, config, params, buffer_dict, old_log_prob,
                   advantage_tensor, loop_locals, call_start>>

take_action_return ==
    /\ pc = "acted"
    /\ pc' = "idle"
    /\ taken' = NoTaken
    /\ UNCHANGED <<raised, config, params, buffer_dict, old_log_prob,
                   advantage_tensor, loop_locals, call_start>>

\* ---------------------------------------------------------------- __init__
PPO_init ==
    /\ pc = "new"
    /\ batch_size' \in BatchSizes
    /\ n_epoch' \in Epochs
    /\ gamma' \in Gammas
    /\ lamda' \in Lamdas
    /\ policy_params' = 0
    /\ value_params' = 0
    /\ pc' = "idle"
    /\ UNCHANGED <<raised, buffer_dict, old_log_prob, advantage_tensor,
                   loop_locals, taken, call_start>>

\* ------------------------------------------------------------------- train
\* The buffers the driver may hand to train: five arrays, each of its own length.
BufferOf(nO, nA, nN, nR, nD) ==
    [observations |-> Arr(nO, LAMBDA i : i),
     actions |-> Arr(nA, LAMBDA i : i % NumActions),
     next_observations |-> Arr(nN, LAMBDA i : i + 1),
     rewards |-> Arr(nR, LAMBDA i : One),
     dones |-> Arr(nD, LAMBDA i : i = nD - 1)]

Buffers ==
    {BufferOf(nO, nA, nN, nR, nD) :
        nO \in 0..MaxLen, nA \in 0..MaxLen, nN \in 0..MaxLen,
        nR \in 0..MaxLen, nD \in 0..MaxLen}

\* obs_tensor.shape[0]
N == Size(buffer_dict["observations"])

\* Lines 54-59: the call begins; the arrays become tensors.
train ==
    /\ pc = "idle"
    /\ calls < MaxCalls
    /\ buffer_dict' \in Buffers
    /\ calls' = calls + 1
    /\ start_policy' = policy_params
    /\ start_value' = value_params
    /\ raised' = "none"
    /\ pc' = "snapshot"
    /\ UNCHANGED <<config, params, old_log_prob, advantage_tensor,
                   loop_locals, taken>>

\* Line 62: th.gather(old_logit, 1, action_tensor) needs no more index rows
\* than old_logit has; its result has one row per action.
OldLogProb(theta, observations, actions) ==
    [i \in DOMAIN actions |-> Log(PolicyNet(theta, observations[i])[actions[i]])]

\* Lines 61-62.
snapshot_phase ==
    /\ pc = "snapshot"
    /\ IF Size(buffer_dict["actions"]) > N
       THEN /\ pc' = "error"
            /\ raised' = "RuntimeError"
            /\ UNCHANGED old_log_prob
       ELSE /\ old_log_prob' = OldLogProb(policy_params,
                                          buffer_dict["observations"],
                                          buffer_dict["actions"])
            /\ pc' = "td_target"
            /\ UNCHANGED raised
    /\ UNCHANGED <<config, params, buffer_dict, advantage_tensor, loop_locals,
                   taken, call_start>>

\* Lines 63-66: the shape of td_delta under broadcasting, or -1.
TdShape(buf) ==
    BcShape(BcShape(Size(buf["rewards"]),
                    BcShape(Size(buf["next_observations"]), Size(buf["dones"]))),
            Size(buf["observations"]))

Long(done) == IF done THEN 1 ELSE 0

\* Lines 63-65 at one index, for the value parameters w.
TdTarget(w, g, reward, next_observation, done) ==
    RAdd(reward,
         RMul(g, RMul(ValueNet(w, next_observation), RInt(1 - Long(done)))))

\* Lines 63-66.
TdDelta(w, g, buf) ==
    Arr(TdShape(buf),
        LAMBDA i : RSub(TdTarget(w, g, At(buf["rewards"], i),
                                 At(buf["next_observations"], i),
                                 At(buf["dones"], i)),
                        ValueNet(w, At(buf["observations"], i))))

\* The TD-target phase with a value step taken before the advantages exist.
td_target_phase_fit ==
    /\ pc = "td_target"
    /\ value_params' = value_params + 1
    /\ IF TdShape(buffer_dict) < 0
       THEN /\ pc' = "error"
            /\ raised' = "RuntimeError"
            /\ UNCHANGED buffer_dict
       ELSE /\ buffer_dict' =
                  ("td_delta" :> TdDelta(value_params, gamma, buffer_dict))
                  @@ buffer_dict
            /\ pc' = "advantage"
            /\ UNCHANGED raised
    /\ UNCHANGED <<config, policy_params, old_log_prob, advantage_tensor,
                   loop_locals, taken, call_start>>

\* Lines 63-69.
td_target_phase ==
    /\ pc = "td_target"
    /\ IF TdShape(buffer_dict) < 0
       THEN /\ pc' = "error"
            /\ raised' = "RuntimeError"
            /\ UNCHANGED buffer_dict
       ELSE /\ buffer_dict' =
                  ("td_delta" :> TdDelta(value_params, gamma, buffer_dict))
                  @@ buffer_dict
            /\ pc' = "advantage"
            /\ UNCHANGED raised
    /\ UNCHANGED <<config, params, old_log_prob, advantage_tensor, loop_locals,
                   taken, call_start>>

\* Lines 71-72.
advantage_phase ==
    /\ pc = "advantage"
    /\ LET r == compute_advantage(buffer_dict, gamma, lamda)
       IN  /\ buffer_dict' = r.buffer_dict
           /\ IF r.raised # "none"
              THEN /\ pc' = "error"
                   /\ raised' = r.raised
                   /\ UNCHANGED advantage_tensor
              ELSE /\ advantage_tensor' = r.buffer_dict["advantages"]
                   /\ pc' = "epoch"
                   /\ UNCHANGED raised
    /\ UNCHANGED <<config, params, old_log_prob, loop_locals, taken, call_start>>

\* np.random.shuffle(np.arange(n)): any permutation of 0..n-1.
Shuffles(n) ==
    {p \in [0..(n - 1) -> 0..(n - 1)] :
        \A i, j \in 0..(n - 1) : p[i] = p[j] => i = j}

\* Lines 73-76: the next epoch begins, or the loop is over and train returns.
\* range(0, n, 0) raises ValueError.
epoch_loop ==
    /\ pc = "epoch"
    /\ IF epoch >= n_epoch
       THEN /\ pc' = "done"
            /\ UNCHANGED <<raised, epoch, idx_arr, sgd_idx, epoch_batches>>
       ELSE /\ epoch' = epoch + 1
            /\ idx_arr' \in Shuffles(N)
            /\ epoch_batches' = <<>>
            /\ sgd_idx' = 0
            /\ IF batch_size = 0
               THEN pc' = "error" /\ raised' = "ValueError"
               ELSE pc' = "batch" /\ UNCHANGED raised
    /\ UNCHANGED <<config, params, buffer_dict, old_log_prob, advantage_tensor,
                   sgd_idx_arr, sgd_old_log_prob, policy_loss, value_loss,
                   taken, call_start>>

\* sgd_idx in range(0, n, batch_size)
InRange(i, n, step) == step > 0 /\ i < n

\* The slice cut one index long: idx_arr[sgd_idx: sgd_idx + self.batch_size + 1]
SgdIdxArrLong(arr, i, size) ==
    LET stop == IF i + size + 1 < Size(arr) THEN i + size + 1 ELSE Size(arr)
    IN  Arr(stop - i, LAMBDA k : arr[i + k])

\* Line 77: idx_arr[sgd_idx: sgd_idx + self.batch_size]
SgdIdxArr(arr, i, size) ==
    LET stop == IF i + size < Size(arr) THEN i + size ELSE Size(arr)
    IN  Arr(stop - i, LAMBDA k : arr[i + k])

\* Lines 86-90 and 96.
PolicyLoss(theta, observations, actions, sgd_old, sgd_advantage) ==
    LET sgd_log_prob == OldLogProb(theta, observations, actions)
        surr(k) ==
            LET ratio == ExpDiff(sgd_log_prob[k], sgd_old[k])
                surr0 == RMul(ratio, sgd_advantage[k])
                surr1 == RMul(Clamp(ratio, RSub(One, Epsilon), RAdd(One, Epsilon)),
                              sgd_advantage[k])
            IN  RMin(surr0, surr1)
    IN  [item |-> RSub(Zero, Mean([k \in DOMAIN actions |-> surr(k)])),
         graph |-> theta]

\* Lines 92-94 and 97.
ValueLoss(w, g, observations, next_observations, rewards, dones) ==
    LET err(k) == RSub(ValueNet(w, observations[k]),
                       TdTarget(w, g, rewards[k], next_observations[k], dones[k]))
    IN  [item |-> Mean([k \in DOMAIN observations |-> RMul(err(k), err(k))]),
         graph |-> w]

\* Lines 76-102: the next minibatch is cut and both losses are computed and
\* back-propagated.
sgd_minibatch ==
    /\ pc = "batch"
    /\ InRange(sgd_idx, N, batch_size)
    /\ LET idx == SgdIdxArr(idx_arr, sgd_idx, batch_size)
           indexed == <<buffer_dict["next_observations"], buffer_dict["actions"],
                        buffer_dict["dones"], buffer_dict["rewards"],
                        advantage_tensor, old_log_prob>>
       IN  /\ sgd_idx_arr' = idx
           /\ epoch_batches' = Append(epoch_batches, idx)
           /\ IF \E t \in 1..Len(indexed) : ~CanIndex(indexed[t], idx)
              THEN /\ pc' = "error"
                   /\ raised' = "IndexError"
                   /\ UNCHANGED <<sgd_old_log_prob, policy_loss, value_loss>>
              ELSE /\ sgd_old_log_prob' = Index(old_log_prob, idx)
                   /\ policy_loss' =
                         PolicyLoss(policy_params,
                                    Index(buffer_dict["observations"], idx),
                                    Index(buffer_dict["actions"], idx),
                                    Index(old_log_prob, idx),
                                    Index(advantage_tensor, idx))
                   /\ value_loss' =
                         ValueLoss(value_params, gamma,
                                   Index(buffer_dict["observations"], idx),
                                   Index(buffer_dict["next_observations"], idx),
                                   Index(buffer_dict["rewards"], idx),
                                   Index(buffer_dict["dones"], idx))
                   /\ pc' = "policy_step"
                   /\ UNCHANGED raised
    /\ UNCHANGED <<config, params, buffer_dict, old_log_prob, advantage_tensor,
                   epoch, idx_arr, sgd_idx, taken, call_start>>

\* The policy step with old_log_prob following the parameters (not detached).
policy_step_refresh ==
    /\ pc = "policy_step"
    /\ policy_params' = policy_params + 1
    /\ old_log_prob' = [i \in DOMAIN old_log_prob |->
                          Log(PolicyNet(policy_params + 1,
                                        buffer_dict["observations"][i])
                                  [buffer_dict["actions"][i]])]
    /\ pc' = "value_step"
    /\ UNCHANGED <<raised, config, value_params, buffer_dict,
                   advantage_tensor, loop_locals, taken, call_start>>

\* Line 103: self.policy_net_optimizer.step()
policy_step ==
    /\ pc = "policy_step"
    /\ policy_params' = policy_params + 1
    /\ pc' = "value_step"
    /\ UNCHANGED <<raised, config, value_params, buffer_dict, old_log_prob,
                   advantage_tensor, loop_locals, taken, call_start>>

\* The value step left out.
value_step_skipped ==
    /\ pc = "value_step"
    /\ sgd_idx' = sgd_idx + batch_size
    /\ pc' = "batch"
    /\ UNCHANGED <<raised, config, params, buffer_dict, old_log_prob,
                   advantage_tensor, epoch, idx_arr, sgd_idx_arr,
                   sgd_old_log_prob, policy_loss, value_loss, epoch_batches,
                   taken, call_start>>

\* Line 104: self.value_net_optimizer.step(); then the next sgd_idx of line 76.
value_step ==
    /\ pc = "value_step"
    /\ value_params' = value_params + 1
    /\ sgd_idx' = sgd_idx + batch_size
    /\ pc' = "batch"
    /\ UNCHANGED <<raised, config, policy_params, buffer_dict, old_log_prob,
                   advantage_tensor, epoch, idx_arr, sgd_idx_arr,
                   sgd_old_log_prob, policy_loss, value_loss, epoch_batches,
                   taken, call_start>>

\* Line 76: the range is exhausted; back to line 73.
epoch_end ==
    /\ pc = "batch"
    /\ ~InRange(sgd_idx, N, batch_size)
    /\ pc' = "epoch"
    /\ UNCHANGED <<raised, config, params, buffer_dict, old_log_prob,
                   advantage_tensor, loop_locals, taken, call_start>>

\* train returns (or its exception reaches the driver); its locals are gone.
train_return ==
    /\ pc \in {"done", "error"}
    /\ pc' = "idle"
    /\ old_log_prob' = Empty
    /\ advantage_tensor' = Empty
    /\ epoch' = 0
    /\ idx_arr' = Empty
    /\ sgd_idx' = 0
    /\ sgd_idx_arr' = Empty
    /\ sgd_old_log_prob' = Empty
    /\ policy_loss' = NoLoss
    /\ value_loss' = NoLoss
    /\ epoch_batches' = <<>>
    /\ buffer_dict' = NoBuffer
    /\ raised' = "none"
    /\ UNCHANGED <<config, params, taken, call_start>>

\* ----------------------------------------------------------- specification
Init ==
    /\ pc = "new"
    /\ raised = "none"
    /\ batch_size = 0
    /\ n_epoch = 0
    /\ gamma = Zero
    /\ lamda = Zero
    /\ policy_params = 0
    /\ value_params = 0
    /\ buffer_dict = NoBuffer
    /\ old_log_prob = Empty
    /\ advantage_tensor = Empty
    /\ epoch = 0
    /\ idx_arr = Empty
    /\ sgd_idx = 0
    /\ sgd_idx_arr = Empty
    /\ sgd_old_log_prob = Empty
    /\ policy_loss = NoLoss
    /\ value_loss = NoLoss
    /\ taken = NoTaken
    /\ calls = 0
    /\ start_policy = 0
    /\ start_value = 0
    /\ epoch_batches = <<>>

Next ==
    \/ PPO_init
    \/ take_action
    \/ take_action_return
    \/ train
    \/ snapshot_phase
    \/ td_target_phase
    \/ advantage_phase
    \/ epoch_loop
    \/ sgd_minibatch
    \/ policy_step
    \/ value_step
    \/ epoch_end
    \/ train_return

Spec == Init /\ [][Next]_vars

\* ------------------------------------- compute_advantage called on its own
Deltas == {RInt(-1), Zero, One}

AdvBuffers ==
    UNION {{[dones |-> d, td_delta |-> t] :
               d \in [0..(n - 1) -> BOOLEAN], t \in [0..(n - 1) -> Deltas]} :
           n \in 0..MaxAdvLen}

InitAdv ==
    /\ pc = "adv_call"
    /\ raised = "none"
    /\ batch_size = 1
    /\ n_epoch = 0
    /\ gamma \in Gammas
    /\ lamda \in Lamdas
    /\ policy_params = 0
    /\ value_params = 0
    /\ buffer_dict \in AdvBuffers
    /\ old_log_prob = Empty
    /\ advantage_tensor = Empty
    /\ epoch = 0
    /\ idx_arr = Empty
    /\ sgd_idx = 0
    /\ sgd_idx_arr = Empty
    /\ sgd_old_log_prob = Empty
    /\ policy_loss = NoLoss
    /\ value_loss = NoLoss
    /\ taken = NoTaken
    /\ calls = 0
    /\ start_policy = 0
    /\ start_value = 0
    /\ epoch_batches = <<>>

\* Lines 106-117, called with buffer_dict.
compute_advantage_call ==
    /\ pc = "adv_call"
    /\ LET r == compute_advantage(buffer_dict, gamma, lamda)
       IN  /\ buffer_dict' = r.buffer_dict
           /\ raised' = r.raised
    /\ pc' = "adv_return"
    /\ UNCHANGED <<config, params, old_log_prob, advantage_tensor, loop_locals,
                   taken, call_start>>

NextAdv == compute_advantage_call

SpecAdv == InitAdv /\ [][NextAdv]_vars

\* ================================================================== claims
InTrain ==
    pc \in {"snapshot", "td_target", "advantage", "epoch", "batch",
            "policy_step", "value_step", "done", "error"}

Lengths ==
    {Size(buffer_dict[k]) :
        k \in {"observations", "actions", "next_observations", "rewards", "dones"}}

\* ceil(n / b) for b >= 1
CeilDiv(n, b) == (n + b - 1) \div b

PolicySteps == policy_params - start_policy
ValueSteps == value_params - start_value

\* C1: for done = [False, False, True] and td_delta = [d0, d1, d2],
\* compute_advantage leaves advantage[2] = gl*d2, advantage[1] = gl*d1 + gl^2*d2
\* and advantage[0] = gl*d0 + gl^2*d1 + gl^3*d2, with gl = gamma*lamda.
C1_GaeThreeStep ==
    (/\ pc = "adv_return"
     /\ Size(buffer_dict["td_delta"]) = 3
     /\ buffer_dict["dones"] = [i \in 0..2 |-> i = 2])
    => LET gl == RMul(gamma, lamda)
           gl2 == RMul(gl, gl)
           gl3 == RMul(gl2, gl)
           d == buffer_dict["td_delta"]
           advantage == buffer_dict["advantages"]
       IN  /\ advantage[2] = RMul(gl, d[2])
           /\ advantage[1] = RAdd(RMul(gl, d[1]), RMul(gl2, d[2]))
           /\ advantage[0] = RAdd(RAdd(RMul(gl, d[0]), RMul(gl2, d[1])),
                                  RMul(gl3, d[2]))

\* C2: no advantage leaks across an episode boundary.  If done[k] is true, the
\* advantages at indices <= k are the same whatever td_delta holds at any
\* index > k; and for done = [False, True, False, True] the advantages are
\* those of the two 2-step episodes computed separately, concatenated.
C2_NoLeakAcrossDone ==
    pc = "adv_return" =>
      LET dones == buffer_dict["dones"]
          td == buffer_dict["td_delta"]
          advantage == buffer_dict["advantages"]
          n == Size(td)
          Alone(lo) ==
              compute_advantage([dones |-> Arr(2, LAMBDA i : dones[lo + i]),
                                 td_delta |-> Arr(2, LAMBDA i : td[lo + i])],
                                gamma, lamda).buffer_dict["advantages"]
      IN  /\ raised = "none"
          /\ \A k \in 0..(n - 1) :
                dones[k] =>
                  \A j \in (k + 1)..(n - 1), v \in Deltas :
                     LET other ==
                             compute_advantage(
                                 [dones |-> dones,
                                  td_delta |-> [td EXCEPT ![j] = v]],
                                 gamma, lamda).buffer_dict["advantages"]
                     IN  \A i \in 0..k : other[i] = advantage[i]
          /\ (n = 4 /\ dones = [i \in 0..3 |-> i \in {1, 3}])
             => advantage = [i \in 0..3 |-> IF i < 2 THEN Alone(0)[i]
                                            ELSE Alone(2)[i - 2]]

C2_Witness ==
    /\ pc = "adv_return"
    /\ buffer_dict["dones"] = [i \in 0..3 |-> i \in {1, 3}]
    /\ buffer_dict["td_delta"] = [i \in 0..3 |-> One]
    /\ buffer_dict["advantages"][1] = RMul(gamma, lamda)

\* C3: with batch_size >= 1, the minibatches of one epoch partition 0..N-1:
\* no index is in two minibatches or twice in one, every minibatch but the
\* last holds batch_size indices and the last between 1 and batch_size, and
\* once the epoch is over every index has been in one and there were
\* ceil(N / batch_size) of them.
C3_MinibatchPartition ==
    (batch_size >= 1 /\ pc \in {"epoch", "batch", "policy_step", "value_step", "done"}
       /\ epoch >= 1)
    => LET m == Len(epoch_batches)
           Members(b) == {epoch_batches[b][k] : k \in DOMAIN epoch_batches[b]}
       IN  /\ \A b \in 1..m :
                 /\ Cardinality(Members(b)) = Size(epoch_batches[b])
                 /\ Members(b) \subseteq 0..(N - 1)
                 /\ Size(epoch_batches[b]) >= 1
                 /\ Size(epoch_batches[b]) <= batch_size
                 /\ b < m => Size(epoch_batches[b]) = batch_size
           /\ \A b, c \in 1..m : b # c => Members(b) \cap Members(c) = {}
           /\ pc \in {"epoch", "done"}
              => /\ UNION {Members(b) : b \in 1..m} = 0..(N - 1)
                 /\ m = CeilDiv(N, batch_size)

C3_Witness ==
    /\ pc = "epoch"
    /\ N = 3
    /\ batch_size = 2
    /\ Len(epoch_batches) = 2
    /\ Size(epoch_batches[2]) = 1

\* C4: a batch_size <= 0 is rejected at construction: no agent exists with
\* one, so no train call runs under one.
C4_BatchSizeRejected == pc # "new" => batch_size >= 1

\* C5: train on a buffer with zero transitions raises nothing, applies no
\* gradient step to either parameter set and leaves an empty advantage
\* sequence.
C5_EmptyBufferNoop ==
    (InTrain /\ Lengths = {0})
    => /\ pc # "error"
       /\ PolicySteps = 0
       /\ ValueSteps = 0
       /\ pc = "done" => buffer_dict["advantages"] = Empty

\* C6: take_action with deterministic = true returns a valid action index, one
\* of highest probability under the policy's distribution.
C6_DeterministicIsMode ==
    (pc = "acted" /\ taken.deterministic)
    => /\ ~taken.action.nan
       /\ taken.action.item \in 0..(NumActions - 1)
       /\ \A a \in 0..(NumActions - 1) :
             ~RLess(taken.probs[taken.action.item], taken.probs[a])

\* C7: during a train call old_log_prob is the log-probability of each taken
\* action under the policy parameters the call began with, and so is the
\* value each minibatch uses for each of its indices, whatever the number of
\* policy steps applied since.
C7_OldLogProbFrozen ==
    LET Snapshot(t) ==
            Log(PolicyNet(start_policy, buffer_dict["observations"][t])
                    [buffer_dict["actions"][t]])
    IN  /\ pc \in {"td_target", "advantage", "epoch", "batch", "policy_step",
                   "value_step", "done"}
           => /\ DOMAIN old_log_prob = DOMAIN buffer_dict["actions"]
              /\ \A t \in DOMAIN old_log_prob : old_log_prob[t] = Snapshot(t)
        /\ pc \in {"policy_step", "value_step"}
           => /\ DOMAIN sgd_old_log_prob = DOMAIN sgd_idx_arr
              /\ \A k \in DOMAIN sgd_idx_arr :
                    sgd_old_log_prob[k] = Snapshot(sgd_idx_arr[k])

C7_Witness ==
    /\ pc = "policy_step"
    /\ start_policy > 0
    /\ PolicySteps > 0
    /\ Size(sgd_idx_arr) = 2

\* C8: train rejects a buffer whose five arrays are not all of one length
\* before it computes anything: neither td_delta nor advantages is written,
\* no gradient step is applied, and the call does not complete.
C8_MismatchRejected ==
    (InTrain /\ Cardinality(Lengths) > 1)
    => /\ "td_delta" \notin DOMAIN buffer_dict
       /\ "advantages" \notin DOMAIN buffer_dict
       /\ PolicySteps = 0
       /\ ValueSteps = 0
       /\ pc # "done"

\* C9: no gradient step of a train call comes before its snapshot, TD-target
\* and advantage phases are complete; and when one of these phases fails,
\* both parameter sets are as they were when the call began.
C9_PhasesBeforeSteps ==
    /\ (InTrain /\ (PolicySteps # 0 \/ ValueSteps # 0
                    \/ pc \in {"policy_step", "value_step"}))
       => /\ DOMAIN old_log_prob = DOMAIN buffer_dict["actions"]
          /\ "td_delta" \in DOMAIN buffer_dict
          /\ "advantages" \in DOMAIN buffer_dict
          /\ advantage_tensor = buffer_dict["advantages"]
          /\ epoch >= 1
    /\ (InTrain /\ epoch = 0)
       => /\ policy_params = start_policy
          /\ value_params = start_value

C9_Witness ==
    /\ pc = "error"
    /\ epoch = 0
    /\ raised = "IndexError"
    /\ "advantages" \in DOMAIN buffer_dict
    /\ start_policy > 0

\* C10: each minibatch gets one policy step and one value step, both losses
\* having been computed from the parameters as they were before either step;
\* a train call that completes with batch_size >= 1 has applied
\* n_epoch * ceil(N / batch_size) steps to each parameter set.
C10_OneStepEach ==
    LET before == (epoch - 1) * CeilDiv(N, batch_size)
    IN  /\ pc = "policy_step"
           => /\ policy_loss.graph = policy_params
              /\ value_loss.graph = value_params
              /\ PolicySteps = before + Len(epoch_batches) - 1
              /\ ValueSteps = PolicySteps
        /\ pc = "value_step"
           => /\ policy_loss.graph = policy_params - 1
              /\ value_loss.graph = value_params
              /\ PolicySteps = before + Len(epoch_batches)
              /\ ValueSteps = PolicySteps - 1
        /\ (pc = "batch" /\ batch_size >= 1)
           => /\ PolicySteps = before + Len(epoch_batches)
              /\ ValueSteps = PolicySteps
        /\ (pc = "done" /\ batch_size >= 1)
           => /\ PolicySteps = n_epoch * CeilDiv(N, batch_size)
              /\ ValueSteps = n_epoch * CeilDiv(N, batch_size)

C10_Witness ==
    /\ pc = "done"
    /\ N = 3
    /\ batch_size = 2
    /\ n_epoch = 2
    /\ PolicySteps = 4
    /\ ValueSteps = 4

====
